---------------------------- MODULE Spec2Model ----------------------------
(***************************************************************************)
(* State-machine model of mlflow.system_metrics.SystemMetricsMonitor       *)
(* (src/mlflow/system_metrics/system_metrics_monitor.py): construction,    *)
(* start(), the monitor() loop run by every spawned thread, finish(), and  *)
(* the collaborators the loop calls (sources, get_run, the batch logger).  *)
(* A second part models mlflow.entities.Metric                              *)
(* (src/mlflow/entities/metric.py): __init__, to_proto(), from_proto() and *)
(* __eq__.                                                                 *)
(***************************************************************************)
EXTENDS Integers, Sequences, FiniteSets, TLC

(* ------------------------------ bounds -------------------------------- *)

\* Number of threads the start() calls of one behaviour may spawn.
MaxStarts == 2

\* Number of batches in the sink after which no new cycle is entered.
MaxPublish == 2

\* Largest samples_before_logging the loop is explored with.
MaxSamples == 3

\* Number of failing calls (spawn, collect, get_run, reduce, record, clear,
\* join) injected in one behaviour.
MaxFaults == 1

(* ------------------------------ inputs -------------------------------- *)

\* An environment variable: unset, or set to an integer value.
Unset == [present |-> FALSE, val |-> 0]

EnvSet(v) == [present |-> TRUE, val |-> v]

\* Default of the sampling_interval argument of __init__.
DefaultInterval == 10

\* Default of the samples_before_logging argument of __init__.
DefaultSamples == 1

\* Configurations under which the loop is explored: no interval override,
\* and every samples_before_logging from 0 to MaxSamples.
EnvIntervals == {Unset}

EnvSamples == {Unset}

ArgIntervals == {DefaultInterval}

ArgSamples == 0..MaxSamples

\* Configurations under which construction alone is explored: each
\* variable unset, set to 0 and set to a positive value, against several
\* constructor arguments.
AllEnvIntervals == {Unset, EnvSet(0), EnvSet(5)}

AllEnvSamples == {Unset, EnvSet(0), EnvSet(1), EnvSet(MaxSamples + 1)}

AllArgIntervals == {DefaultInterval, 3}

AllArgSamples == 0..MaxSamples

\* The default sources, in the order __init__ builds them.
SourceOrder == <<"cpu", "disk", "network", "gpu">>

Sources == {SourceOrder[n] : n \in 1..Len(SourceOrder)}

\* The source whose constructor raises, or "none".
CtorFailures == Sources \cup {"none"}

Tids == 1..MaxStarts

None == 0

(* ------------------------- the Metric entity -------------------------- *)

\* A Python float: NaN, or a number.
Num(n) == [nan |-> FALSE, num |-> n]

NaN == [nan |-> TRUE, num |-> 0]

EmptyDict == [k \in {} |-> ""]

\* The `tags` argument: None, or a dict from tag names to tag values.
PyNone == [none |-> TRUE, dict |-> EmptyDict]

PyDict(d) == [none |-> FALSE, dict |-> d]

\* Inputs of Metric(key, value, timestamp, step, tags).
MetricKeys == {"accuracy", "loss"}

MetricValues == {Num(0), Num(10000), NaN}

MetricTimestamps == {0, 1999}

MetricSteps == {0, 7}

MetricTags ==
    {PyNone, PyDict(EmptyDict), PyDict("country" :> "se"),
     PyDict(("country" :> "se") @@ ("region" :> "eu"))}

\* TagsOrEmpty with `self._tags = tags`: None is stored as it is given.
TagsOrEmpty_AsGiven(tags) == tags

\* Line 15, `tags or {}`: None and the empty dict are falsy.
TagsOrEmpty(tags) ==
    IF tags.none \/ DOMAIN tags.dict = {} THEN PyDict(EmptyDict) ELSE tags

\* Metric.__init__, lines 10-15: the attributes of the new object.
MetricInit(key, value, timestamp, step, tags) ==
    [key |-> key, value |-> value, timestamp |-> timestamp, step |-> step,
     tags |-> TagsOrEmpty(tags)]

\* dict.items() of line 43, in the dict's iteration order.
RECURSIVE Items(_)
Items(d) ==
    IF DOMAIN d = {} THEN <<>>
    ELSE LET k == CHOOSE k \in DOMAIN d : TRUE
         IN  <<[key |-> k, value |-> d[k]]>>
               \o Items([x \in DOMAIN d \ {k} |-> d[x]])

\* Line 43 calls self.tags.items(): None has no items().
ToProtoRaises(m) == m.tags.none

\* to_proto(), lines 41-49: one Dimension per tag, then the four scalars.
ToProto(m) ==
    [dimensions |-> Items(m.tags.dict), key |-> m.key, value |-> m.value,
     timestamp |-> m.timestamp, step |-> m.step]

\* Line 58, {d.key: d.value for d in proto.dimensions}: a later entry of the
\* same key replaces an earlier one.
DictOf(dims) ==
    [k \in {dims[n].key : n \in DOMAIN dims} |->
        LET last == CHOOSE n \in DOMAIN dims :
                       /\ dims[n].key = k
                       /\ \A j \in DOMAIN dims : dims[j].key = k => j <= n
        IN  dims[last].value]

\* from_proto(), lines 51-59.
FromProto(proto) ==
    MetricInit(proto.key, proto.value, proto.timestamp, proto.step,
               PyDict(DictOf(proto.dimensions)))

\* `==` of two float objects that are not the same object: NaN equals
\* nothing.
FloatEq(x, y) == ~x.nan /\ ~y.nan /\ x.num = y.num

\* __eq__, lines 61-65, of two Metric objects: self.__dict__ == o.__dict__,
\* attribute by attribute.
MetricEq(a, b) ==
    /\ a.key = b.key
    /\ FloatEq(a.value, b.value)
    /\ a.timestamp = b.timestamp
    /\ a.step = b.step
    /\ a.tags = b.tags

NoMetric == MetricInit("", Num(0), 0, 0, PyNone)

NoProto == ToProto(NoMetric)

\* No Metric in play.
NoEntity ==
    [stage |-> "none", key |-> "", value |-> Num(0), timestamp |-> 0,
     step |-> 0, tags |-> PyNone, m |-> NoMetric, proto |-> NoProto,
     back |-> NoMetric]

(* ------------------------------- state -------------------------------- *)

VARIABLES
    env_interval,           \* MLFLOW_SYSTEM_METRICS_SAMPLING_INTERVAL
    env_samples,            \* MLFLOW_SYSTEM_METRICS_SAMPLES_BEFORE_LOGGING
    arg_interval,           \* __init__ argument sampling_interval
    arg_samples,            \* __init__ argument samples_before_logging
    ctor_failure,           \* the source whose constructor raised
    object,                 \* unbuilt / built / ctor_raised (__init__ raised)
    monitors,               \* self.monitors, a sequence of source names
    sampling_interval,      \* self.sampling_interval
    samples_before_logging, \* self.samples_before_logging
    shutdown_event,         \* self._shutdown_event.is_set()
    process,                \* self._process: a thread id or None
    logging_step,           \* self._logging_step
    buffers,                \* per source: samples held since the last clear
    run_status,             \* status of the tracked run in the run store
    sink,                   \* batches recorded by the BatchMetricsLogger
    threads,                \* per thread id: position and locals of monitor()
    caller,                 \* the owner's position: ready / joining
    spawned,                \* number of threads start() has spawned so far
    faults,                 \* number of calls that have failed so far
    oracle_active,          \* status queries answered RUNNING so far
    entity                  \* a Metric: its arguments, proto and round trip

vars == <<env_interval, env_samples, arg_interval, arg_samples, ctor_failure,
          object, monitors, sampling_interval, samples_before_logging,
          shutdown_event, process, logging_step, buffers, run_status, sink,
          threads, caller, spawned, faults, oracle_active, entity>>

\* What no operation of a constructed Monitor writes.
config == <<env_interval, env_samples, arg_interval, arg_samples, ctor_failure,
            object, monitors, sampling_interval, samples_before_logging,
            entity>>

(* --------------------------- construction ----------------------------- *)

\* Python's `a or b` with a = EnvironmentVariable.get(): None when the
\* variable is unset, and a value that is falsy when it is 0.
PyOr(e, arg) == IF e.present /\ e.val # 0 THEN e.val ELSE arg

\* __init__, lines 43-50: CPU, disk and network sources are built outside
\* any try; only the GPUMonitor construction is guarded.
CtorRaises(failing) == failing \in {"cpu", "disk", "network"}

\* MonitorsBuilt with the GPU source appended although its constructor raised.
MonitorsBuilt_KeepsGpu(failing) == <<"cpu", "disk", "network", "gpu">>

MonitorsBuilt(failing) ==
    IF failing = "gpu" THEN <<"cpu", "disk", "network">>
    ELSE <<"cpu", "disk", "network", "gpu">>

Active == {monitors[n] : n \in 1..Len(monitors)}

\* Position of source s in self.monitors.
Pos(s) == CHOOSE n \in 1..Len(monitors) : monitors[n] = s

EmptyBatch == [s \in {} |-> 0]

\* A thread's position in monitor() and its locals.  Two fields only observe:
\* rounds counts the rounds (collect, wait, status query answered RUNNING)
\* completed since the loop began or since the thread's last record_metrics
\* call; late counts the collect rounds and record_metrics calls begun while
\* the shutdown event was set.
NotStarted ==
    [pc |-> "unstarted", i |-> 0, run |-> "", metrics |-> EmptyBatch,
     step |-> 0, why |-> "", rounds |-> 0, late |-> 0]

\* The state before __init__ runs, for the given process environment and
\* constructor arguments.
Unbuilt(envI, envS, argI, argS) ==
    /\ env_interval \in envI
    /\ env_samples \in envS
    /\ arg_interval \in argI
    /\ arg_samples \in argS
    /\ ctor_failure \in CtorFailures
    /\ object = "unbuilt"
    /\ monitors = <<>>
    /\ sampling_interval = 0
    /\ samples_before_logging = 0
    /\ shutdown_event = FALSE
    /\ process = None
    /\ logging_step = 0
    /\ buffers = [s \in Sources |-> 0]
    /\ run_status = "RUNNING"
    /\ sink = <<>>
    /\ threads = [t \in Tids |-> NotStarted]
    /\ caller = "ready"
    /\ spawned = 0
    /\ faults = 0
    /\ oracle_active = 0

Init ==
    /\ Unbuilt(EnvIntervals, EnvSamples, ArgIntervals, ArgSamples)
    /\ entity = NoEntity

\* The same, with the default samples_before_logging only.
InitDefault ==
    /\ Unbuilt(EnvIntervals, EnvSamples, ArgIntervals, {DefaultSamples})
    /\ entity = NoEntity

InitConfig ==
    /\ Unbuilt(AllEnvIntervals, AllEnvSamples, AllArgIntervals, AllArgSamples)
    /\ entity = NoEntity

Built == object = "built"

\* __init__, lines 39-61.
Construct ==
    /\ object = "unbuilt"
    /\ IF CtorRaises(ctor_failure)
       THEN /\ object' = "ctor_raised"
            /\ UNCHANGED <<monitors, sampling_interval,
                           samples_before_logging>>
       ELSE /\ object' = "built"
            /\ monitors' = MonitorsBuilt(ctor_failure)
            /\ sampling_interval' = PyOr(env_interval, arg_interval)
            /\ samples_before_logging' = PyOr(env_samples, arg_samples)
    /\ UNCHANGED <<env_interval, env_samples, arg_interval, arg_samples,
                   ctor_failure, shutdown_event, process, logging_step,
                   buffers, run_status, sink, threads, caller, spawned,
                   faults, oracle_active, entity>>

(* ------------------------------ helpers ------------------------------- *)

Live(t) == threads[t].pc \notin {"unstarted", "done"}

\* The thread leaves monitor(): by a return, or by an exception nothing
\* inside monitor() catches (the thread dies, its caller never sees it).
Exit(t, reason) ==
    [threads EXCEPT ![t] = [NotStarted EXCEPT !.pc = "done", !.why = reason,
                                              !.late = threads[t].late]]

\* The late count of thread t after one more collect round or record call.
Late(t) == threads[t].late + (IF shutdown_event THEN 1 ELSE 0)

Goto(t, label) == [threads EXCEPT ![t].pc = label]

\* Source.collect_metrics() of every source in `done`: one more sample each.
Sampled(done) ==
    [s \in Sources |-> IF s \in done THEN buffers[s] + 1 ELSE buffers[s]]

\* Source.clear_metrics() of every source in `done`.
Cleared(done) ==
    [s \in Sources |-> IF s \in done THEN 0 ELSE buffers[s]]

\* The sources that precede s in self.monitors.
Before(s) == {monitors[n] : n \in 1..(Pos(s) - 1)}

\* Source.aggregate_metrics(): folds the samples held since the last clear
\* into one value per metric name (here: how many samples were folded); a
\* source holding no sample contributes no entry.
Reduce(s) == buffers[s]

\* aggregate_metrics(), lines 113-118: the union of every source's mapping.
AggregateMetrics ==
    [s \in {x \in Active : buffers[x] > 0} |-> Reduce(s)]

(* ------------------------- the monitor() loop ------------------------- *)

\* Line 81: `while not self._shutdown_event.is_set()`, then line 82:
\* `for _ in range(self.samples_before_logging)`, empty when the count <= 0.
\* A new cycle is entered only while the sink holds fewer than MaxPublish
\* batches.
WhileTest(t) ==
    /\ threads[t].pc = "while"
    /\ shutdown_event \/ Len(sink) < MaxPublish
    /\ threads' =
         IF shutdown_event THEN Exit(t, "shutdown")
         ELSE IF samples_before_logging > 0
              THEN [threads EXCEPT ![t].pc = "collect", ![t].i = 0]
              ELSE Goto(t, "aggregate")
    /\ UNCHANGED <<config, shutdown_event, process, logging_step, buffers,
                   run_status, sink, caller, spawned, faults,
                   oracle_active>>

\* Lines 83 and 105-111: every source samples once.
CollectOk(t) ==
    /\ threads[t].pc = "collect"
    /\ buffers' = Sampled(Active)
    /\ threads' = [threads EXCEPT ![t].pc = "wait", ![t].late = Late(t)]
    /\ UNCHANGED <<config, shutdown_event, process, logging_step, run_status,
                   sink, caller, spawned, faults, oracle_active>>

\* A source hits a recoverable read failure: by the Source contract it logs
\* and skips that reading, and collect_metrics() returns normally.
CollectSkip(t) ==
    /\ threads[t].pc = "collect"
    /\ faults < MaxFaults
    /\ \E s \in Active :
         buffers' = Sampled(Active \ {s})
    /\ faults' = faults + 1
    /\ threads' = [threads EXCEPT ![t].pc = "wait", ![t].late = Late(t)]
    /\ UNCHANGED <<config, shutdown_event, process, logging_step, run_status,
                   sink, caller, spawned, oracle_active>>

\* What monitor() does when monitor.collect_metrics() of source s raises:
\* line 109 is in no try block, the exception leaves monitor().
AfterCollectRaised(t, s) == Exit(t, "collect_raised")

CollectRaise(t) ==
    /\ threads[t].pc = "collect"
    /\ \E s \in Active :
         /\ buffers' = Sampled(Before(s))
         /\ threads' = [AfterCollectRaised(t, s) EXCEPT ![t].late = Late(t)]
    /\ faults < MaxFaults
    /\ faults' = faults + 1
    /\ UNCHANGED <<config, shutdown_event, process, logging_step, run_status,
                   sink, caller, spawned, oracle_active>>

\* Line 84: self._shutdown_event.wait(self.sampling_interval) returns when
\* the interval has elapsed ...
WaitTimeout(t) ==
    /\ threads[t].pc = "wait"
    /\ threads' = Goto(t, "get_run")
    /\ UNCHANGED <<config, shutdown_event, process, logging_step, buffers,
                   run_status, sink, caller, spawned, faults,
                   oracle_active>>

\* WaitOver with a wait the event cannot end (a plain sleep).
WaitOver_Sleep == FALSE

\* What ends Event.wait() before the interval has elapsed.
WaitOver == shutdown_event

\* ... or as soon as the event is set, whichever comes first.
WaitSignalled(t) ==
    /\ threads[t].pc = "wait"
    /\ WaitOver
    /\ threads' = Goto(t, "get_run")
    /\ UNCHANGED <<config, shutdown_event, process, logging_step, buffers,
                   run_status, sink, caller, spawned, faults,
                   oracle_active>>

Wait(t) == WaitTimeout(t) \/ WaitSignalled(t)

\* Line 87: run = get_run(self._run_id).
GetRunOk(t) ==
    /\ threads[t].pc = "get_run"
    /\ threads' = [threads EXCEPT ![t].pc = "check", ![t].run = run_status]
    /\ oracle_active' =
         IF run_status = "RUNNING" THEN oracle_active + 1 ELSE oracle_active
    /\ UNCHANGED <<config, shutdown_event, process, logging_step, buffers,
                   run_status, sink, caller, spawned, faults>>

\* AfterGetRunRaised with a handler that logs and queries again.
AfterGetRunRaised_Retry(t) == [threads EXCEPT ![t].why = "get_run_failed"]

\* Lines 88-90: what monitor() does when get_run raised.
AfterGetRunRaised(t) == Exit(t, "get_run_failed")

\* Lines 88-90: get_run raised; warn and return.
GetRunRaise(t) ==
    /\ threads[t].pc = "get_run"
    /\ threads' = AfterGetRunRaised(t)
    /\ faults < MaxFaults
    /\ faults' = faults + 1
    /\ UNCHANGED <<config, shutdown_event, process, logging_step, buffers,
                   run_status, sink, caller, spawned, oracle_active>>

\* MustStop with the status comparison inverted.
MustStop_Inverted(t) == threads[t].run = "RUNNING" \/ shutdown_event

\* MustStop with the test of the shutdown event left out.
MustStop_IgnoresEvent(t) == threads[t].run # "RUNNING"

\* Line 91: the stop condition read after the wait and the status query.
MustStop(t) == threads[t].run # "RUNNING" \/ shutdown_event

\* MoreSamples with a loop that leaves one round early.
MoreSamples_OneShort(t) == threads[t].i + 2 < samples_before_logging

\* MoreSamples with an off-by-one loop bound: one sample too many a cycle.
MoreSamples_OffByOne(t) == threads[t].i < samples_before_logging

\* Line 82: range(self.samples_before_logging) has another iteration.
MoreSamples(t) == threads[t].i + 1 < samples_before_logging

\* Lines 91-94, then the next iteration of the for loop or line 95.
Check(t) ==
    /\ threads[t].pc = "check"
    /\ threads' =
         IF MustStop(t) THEN Exit(t, "stopped")
         ELSE IF MoreSamples(t)
              THEN [threads EXCEPT ![t].pc = "collect", ![t].run = "",
                                   ![t].i = threads[t].i + 1,
                                   ![t].rounds = threads[t].rounds + 1]
              ELSE [threads EXCEPT ![t].pc = "aggregate", ![t].run = "",
                                   ![t].i = 0,
                                   ![t].rounds = threads[t].rounds + 1]
    /\ UNCHANGED <<config, shutdown_event, process, logging_step, buffers,
                   run_status, sink, caller, spawned, faults,
                   oracle_active>>

\* Line 95: metrics = self.aggregate_metrics().
AggregateOk(t) ==
    /\ threads[t].pc = "aggregate"
    /\ threads' = [threads EXCEPT ![t].pc = "record",
                                  ![t].metrics = AggregateMetrics]
    /\ UNCHANGED <<config, shutdown_event, process, logging_step, buffers,
                   run_status, sink, caller, spawned, faults,
                   oracle_active>>

\* Line 95 is in no try block: a raising aggregate_metrics() leaves monitor().
AggregateRaise(t) ==
    /\ threads[t].pc = "aggregate"
    /\ threads' = Exit(t, "reduce_raised")
    /\ faults < MaxFaults
    /\ faults' = faults + 1
    /\ UNCHANGED <<config, shutdown_event, process, logging_step, buffers,
                   run_status, sink, caller, spawned, oracle_active>>

\* The step handed to record_metrics on line 122.
StepArgument == logging_step

\* Line 122: self.mlflow_logger.record_metrics(metrics, self._logging_step).
RecordOk(t) ==
    /\ threads[t].pc = "record"
    /\ sink' = Append(sink, [step |-> StepArgument,
                             batch |-> threads[t].metrics])
    /\ threads' = [threads EXCEPT ![t].pc = "incr_load",
                                  ![t].metrics = EmptyBatch,
                                  ![t].rounds = 0, ![t].late = Late(t)]
    /\ UNCHANGED <<config, shutdown_event, process, logging_step, buffers,
                   run_status, caller, spawned, faults, oracle_active>>

\* AfterPublishRaised with a handler that logs and tries the publish again.
AfterPublishRaised_Retry(t, reason) == [threads EXCEPT ![t].why = reason]

\* Lines 98-103: what monitor() does when publish_metrics() raised.
AfterPublishRaised(t, reason) == Exit(t, reason)

\* record_metrics raised: nothing was recorded, the step was not advanced.
RecordRaise(t) ==
    /\ threads[t].pc = "record"
    /\ threads' = [AfterPublishRaised(t, "publish_failed")
                      EXCEPT ![t].late = Late(t)]
    /\ faults < MaxFaults
    /\ faults' = faults + 1
    /\ UNCHANGED <<config, shutdown_event, process, logging_step, buffers,
                   run_status, sink, caller, spawned, oracle_active>>

\* Line 123, `self._logging_step += 1`: the read of the attribute ...
IncrLoad(t) ==
    /\ threads[t].pc = "incr_load"
    /\ threads' = [threads EXCEPT ![t].pc = "incr_store",
                                  ![t].step = logging_step]
    /\ UNCHANGED <<config, shutdown_event, process, logging_step, buffers,
                   run_status, sink, caller, spawned, faults,
                   oracle_active>>

\* The value line 123 stores back.
Incremented(v) == v + 1

\* ... and the write of the incremented value.
IncrStore(t) ==
    /\ threads[t].pc = "incr_store"
    /\ logging_step' = Incremented(threads[t].step)
    /\ threads' = [threads EXCEPT ![t].pc = "clear", ![t].step = 0]
    /\ UNCHANGED <<config, shutdown_event, process, buffers, run_status, sink,
                   caller, spawned, faults, oracle_active>>

\* Lines 124-125: every source clears its samples; back to line 81.
ClearOk(t) ==
    /\ threads[t].pc = "clear"
    /\ buffers' = Cleared(Active)
    /\ threads' = Goto(t, "while")
    /\ UNCHANGED <<config, shutdown_event, process, logging_step, run_status,
                   sink, caller, spawned, faults, oracle_active>>

\* clear_metrics() of source s raised inside publish_metrics(): caught by the
\* except of lines 98-103 like a failed record_metrics.
ClearRaise(t) ==
    /\ threads[t].pc = "clear"
    /\ \E s \in Active :
         buffers' = Cleared(Before(s))
    /\ threads' = AfterPublishRaised(t, "clear_raised")
    /\ faults < MaxFaults
    /\ faults' = faults + 1
    /\ UNCHANGED <<config, shutdown_event, process, logging_step, run_status,
                   sink, caller, spawned, oracle_active>>

(* ---------------------------- the owner ------------------------------- *)

\* start(), lines 65-72 when no exception is raised: a new thread runs
\* monitor() and self._process holds it. Nothing tests self._process first.
CanStart == caller = "ready"

\* EventAfterStart with a start() that clears the event for the new thread.
EventAfterStart_Cleared == FALSE

\* The shutdown event after start(): lines 63-75 never call clear().
EventAfterStart == shutdown_event

StartOk ==
    /\ Built
    /\ CanStart
    /\ spawned < MaxStarts
    /\ spawned' = spawned + 1
    /\ process' = spawned + 1
    /\ threads' = Goto(spawned + 1, "while")
    /\ shutdown_event' = EventAfterStart
    /\ UNCHANGED <<config, logging_step, buffers, run_status,
                   sink, caller, faults, oracle_active>>

\* AfterStartRaised with no except clause: the exception unwinds start().
AfterStartRaised_Propagates == "raised"

\* Lines 73-75: where the owner is after start() caught a spawn failure.
AfterStartRaised == "ready"

\* start() when Thread(...) or Thread.start() raises.
StartRaise ==
    /\ Built
    /\ CanStart
    /\ process' = None
    /\ caller' = AfterStartRaised
    /\ faults < MaxFaults
    /\ faults' = faults + 1
    /\ UNCHANGED <<config, shutdown_event, logging_step, buffers, run_status,
                   sink, threads, spawned, oracle_active>>

\* EventAfterEarlyReturn with the event set before the handle is tested.
EventAfterEarlyReturn_Set == TRUE

\* The shutdown event after the return of line 130, which comes before the
\* set() of line 132.
EventAfterEarlyReturn == shutdown_event

\* finish(), lines 129-130: no thread handle, return at once.
FinishNoProcess ==
    /\ Built
    /\ caller = "ready"
    /\ process = None
    /\ shutdown_event' = EventAfterEarlyReturn
    /\ UNCHANGED <<config, process, logging_step, buffers,
                   run_status, sink, threads, caller, spawned, faults,
                   oracle_active>>

\* finish(), lines 131-134: set the event, then block in join().
FinishSignal ==
    /\ Built
    /\ caller = "ready"
    /\ process # None
    /\ shutdown_event' = TRUE
    /\ caller' = "joining"
    /\ UNCHANGED <<config, process, logging_step, buffers, run_status, sink,
                   threads, spawned, faults, oracle_active>>

\* Joinable with a join() that returns without waiting for the thread.
Joinable_NoWait(t) == TRUE

\* What join() of line 134 waits for.
Joinable(t) == threads[t].pc = "done"

\* Lines 134-138: join() returned; drop the handle and return.
FinishJoined ==
    /\ caller = "joining"
    /\ Joinable(process)
    /\ process' = None
    /\ caller' = "ready"
    /\ UNCHANGED <<config, shutdown_event, logging_step, buffers, run_status,
                   sink, threads, spawned, faults, oracle_active>>

\* Lines 136-138: where the owner is after finish() caught a failed join.
AfterJoinRaised == "ready"

\* Lines 136-138: join() raised; log the error, drop the handle and return.
FinishJoinRaise ==
    /\ caller = "joining"
    /\ process' = None
    /\ caller' = AfterJoinRaised
    /\ faults < MaxFaults
    /\ faults' = faults + 1
    /\ UNCHANGED <<config, shutdown_event, logging_step, buffers, run_status,
                   sink, threads, spawned, oracle_active>>

(* --------------------------- the run store ---------------------------- *)

\* The tracked run ends (mlflow.end_run, or another process ends it).
EndRun ==
    /\ run_status = "RUNNING"
    /\ run_status' = "FINISHED"
    /\ UNCHANGED <<config, shutdown_event, process, logging_step, buffers,
                   sink, threads, caller, spawned, faults,
                   oracle_active>>

(* --------------------------- specification ---------------------------- *)

ThreadStep(t) ==
    \/ WhileTest(t)
    \/ CollectOk(t)
    \/ CollectSkip(t)
    \/ CollectRaise(t)
    \/ Wait(t)
    \/ GetRunOk(t)
    \/ GetRunRaise(t)
    \/ Check(t)
    \/ AggregateOk(t)
    \/ AggregateRaise(t)
    \/ RecordOk(t)
    \/ RecordRaise(t)
    \/ IncrLoad(t)
    \/ IncrStore(t)
    \/ ClearOk(t)
    \/ ClearRaise(t)

\* Idle of the Monitor's lifecycle: constructed, no thread spawned yet.
Idle == \A t \in Tids : threads[t].pc = "unstarted"

\* The owner follows the lifecycle: start() is called from Idle only.
FirstStartOk == Idle /\ StartOk

FirstStartRaise == Idle /\ StartRaise

Next ==
    \/ Construct
    \/ FirstStartOk
    \/ FirstStartRaise
    \/ FinishNoProcess
    \/ FinishSignal
    \/ FinishJoined
    \/ FinishJoinRaise
    \/ EndRun
    \/ \E t \in Tids : ThreadStep(t)

Spec == Init /\ [][Next]_vars

\* The owner calls start() and finish() in any order, any number of times.
NextAnyCalls ==
    \/ Construct
    \/ StartOk
    \/ StartRaise
    \/ FinishNoProcess
    \/ FinishSignal
    \/ FinishJoined
    \/ FinishJoinRaise
    \/ EndRun
    \/ \E t \in Tids : ThreadStep(t)

SpecAnyCalls == InitDefault /\ [][NextAnyCalls]_vars

\* No thread is inside monitor(): none was spawned, or each has exited.
Quiet == \A t \in Tids : ~Live(t)

\* The owner starts the Monitor again once its thread has ended.
RestartOk == Quiet /\ StartOk

RestartRaise == Quiet /\ StartRaise

NextRestart ==
    \/ Construct
    \/ RestartOk
    \/ RestartRaise
    \/ FinishNoProcess
    \/ FinishSignal
    \/ FinishJoined
    \/ FinishJoinRaise
    \/ EndRun
    \/ \E t \in Tids : ThreadStep(t)

SpecRestart == Init /\ [][NextRestart]_vars

\* The lifecycle under fair scheduling: a thread that can take a step of
\* monitor() eventually takes one (every call it makes returns, the sampling
\* interval elapses).
SpecLive == Init /\ [][Next]_vars /\ \A t \in Tids : WF_vars(ThreadStep(t))

\* A Metric through to_proto() and from_proto(), for every argument tuple.
InitMetric ==
    /\ Unbuilt({Unset}, {Unset}, {DefaultInterval}, {DefaultSamples})
    /\ ctor_failure = "none"
    /\ \E k \in MetricKeys, v \in MetricValues, ts \in MetricTimestamps,
          st \in MetricSteps, tg \in MetricTags :
         entity = [NoEntity EXCEPT !.stage = "args", !.key = k, !.value = v,
                                   !.timestamp = ts, !.step = st, !.tags = tg]

monitor_vars ==
    <<env_interval, env_samples, arg_interval, arg_samples, ctor_failure,
      object, monitors, sampling_interval, samples_before_logging,
      shutdown_event, process, logging_step, buffers, run_status, sink,
      threads, caller, spawned, faults, oracle_active>>

\* m = Metric(key, value, timestamp, step, tags)
MetricNew ==
    /\ entity.stage = "args"
    /\ entity' = [entity EXCEPT
                    !.stage = "metric",
                    !.m = MetricInit(entity.key, entity.value,
                                     entity.timestamp, entity.step,
                                     entity.tags)]
    /\ UNCHANGED monitor_vars

\* proto = m.to_proto()
MetricToProto ==
    /\ entity.stage = "metric"
    /\ entity' = IF ToProtoRaises(entity.m)
                 THEN [entity EXCEPT !.stage = "raised"]
                 ELSE [entity EXCEPT !.stage = "proto",
                                     !.proto = ToProto(entity.m)]
    /\ UNCHANGED monitor_vars

\* back = Metric.from_proto(proto)
MetricFromProto ==
    /\ entity.stage = "proto"
    /\ entity' = [entity EXCEPT !.stage = "back",
                                !.back = FromProto(entity.proto)]
    /\ UNCHANGED monitor_vars

NextMetric == MetricNew \/ MetricToProto \/ MetricFromProto

SpecMetric == InitMetric /\ [][NextMetric]_vars

\* The lifecycle when every call a thread makes returns and join() returns
\* once its thread has exited. The sampling interval is not assumed to elapse:
\* a wait is only sure to end when the event is set.
SpecShutdown ==
    /\ Init
    /\ [][Next]_vars
    /\ \A t \in Tids :
          /\ WF_vars(threads[t].pc # "wait" /\ ThreadStep(t))
          /\ WF_vars(WaitSignalled(t))
    /\ WF_vars(FinishJoined)

\* Construction alone, over every configuration.
NextConfig == Construct

SpecConfig == InitConfig /\ [][NextConfig]_vars

(* ------------------------------ claims -------------------------------- *)

\* Some thread is inside `self._logging_step += 1` or about to enter it: it
\* has recorded a batch and not yet stored the advanced step.
MidPublish == \E t \in Tids : threads[t].pc \in {"incr_load", "incr_store"}

\* C1: the steps handed to the sink are 0, 1, 2, ... in that order, without
\* gap or duplicate, and once the publish in progress has advanced the step,
\* logging_step equals the number of batches the sink has recorded.
C1_StepsCountPublishes ==
    /\ \A n \in 1..Len(sink) : sink[n].step = n - 1
    /\ ~MidPublish => logging_step = Len(sink)

\* C2: a check that finds the run not RUNNING, or the shutdown event set,
\* ends the loop on the spot, whichever iteration of the cycle it is: the
\* thread goes nowhere but out, nothing is recorded, sampled or cleared by
\* that step, and a thread that has left never acts again.
C2_StopAtCheck ==
    [][\A t \in Tids :
         /\ (/\ threads[t].pc = "check"
             /\ (threads[t].run # "RUNNING" \/ shutdown_event)
             /\ threads'[t] # threads[t])
            => /\ threads'[t].pc = "done"
               /\ sink' = sink
               /\ buffers' = buffers
               /\ logging_step' = logging_step
         /\ threads[t].pc = "done" => threads'[t] = threads[t]]_vars

\* C2 witness: with one sample per publish the only check of the first cycle
\* stopped the loop; samples were collected and no batch was recorded.
C2_Witness ==
    \E t \in Tids :
        /\ threads[t].why = "stopped"
        /\ samples_before_logging = 1
        /\ buffers["cpu"] = 1
        /\ sink = <<>>

\* A finish() call that found a thread handle has returned.
FinishReturned == shutdown_event /\ caller = "ready"

C4_OneTask == Cardinality({t \in Tids : Live(t)}) <= 1

\* C5: a failed record_metrics ends the loop with that one attempt: the
\* step is not advanced, nothing is recorded or cleared, the thread never acts
\* again, and a finish() waiting for that thread can return.
C5_PublishFailStop ==
    [][\A t \in Tids :
         /\ (threads'[t].why = "publish_failed"
                /\ threads[t].why # "publish_failed")
            => /\ threads[t].pc = "record"
               /\ threads'[t].pc = "done"
               /\ sink' = sink
               /\ logging_step' = logging_step
               /\ buffers' = buffers
         /\ threads[t].why = "publish_failed"
            => /\ threads'[t] = threads[t]
               /\ threads[t].pc = "done"
               /\ (caller = "joining" /\ process = t) => ENABLED FinishJoined
       ]_vars

\* C5 witness: the second publish failed after a first one went through, the
\* step stayed at 1, and finish() has joined the thread and returned.
C5_Witness ==
    /\ \E t \in Tids : threads[t].why = "publish_failed"
    /\ logging_step = 1
    /\ Len(sink) = 1
    /\ FinishReturned
    /\ process = None

\* C6: a collection round always leads on to the wait, also when a source's
\* collect fails.
C6_CollectFailureNonFatal ==
    [][\A t \in Tids :
         (threads[t].pc = "collect" /\ threads'[t] # threads[t])
            => threads'[t].pc = "wait"]_vars

\* C7 as stated: whichever source's construction throws, the Monitor is
\* built with exactly the other sources.
C7_AnySourceMayFail ==
    (object # "unbuilt" /\ ctor_failure # "none")
        => /\ object = "built"
           /\ Active = Sources \ {ctor_failure}

\* C7 amended: a throwing GPU source is left out and the Monitor is built
\* with CPU, disk and network, which sample and publish as usual; a throwing
\* CPU, disk or network source makes __init__ raise, and nothing ever runs.
C7_OnlyGpuIsOptional ==
    object # "unbuilt" =>
        /\ ctor_failure = "gpu"
            => /\ object = "built"
               /\ monitors = <<"cpu", "disk", "network">>
               /\ buffers["gpu"] = 0
               /\ \A s \in Active, r \in Active : buffers[s] = buffers[r]
                    \/ faults > 0
               /\ \A n \in 1..Len(sink) : "gpu" \notin DOMAIN sink[n].batch
        /\ ctor_failure = "none"
            => /\ object = "built"
               /\ monitors = <<"cpu", "disk", "network", "gpu">>
        /\ ctor_failure \in {"cpu", "disk", "network"}
            => /\ object = "ctor_raised"
               /\ monitors = <<>>
               /\ Idle
               /\ sink = <<>>

\* C7 witness: built without the GPU source, the Monitor has published a
\* batch holding a value for each of CPU, disk and network.
C7_Witness ==
    /\ ctor_failure = "gpu"
    /\ Len(sink) > 0
    /\ DOMAIN sink[1].batch = {"cpu", "disk", "network"}

FailureReasons ==
    {"collect_raised", "get_run_failed", "reduce_raised", "publish_failed",
     "clear_raised"}

\* C8: no failure reaches the caller of start() or finish(): the owner is
\* always back from the call or blocked in join(), never unwinding with an
\* exception, and a failure inside the loop has ended that loop only.
C8_NoErrorReachesCaller ==
    /\ caller \in {"ready", "joining"}
    /\ \A t \in Tids :
         threads[t].why \in FailureReasons => threads[t].pc = "done"
    /\ (caller = "joining" /\ threads[process].why \in FailureReasons)
          => ENABLED FinishJoined

\* C8 witness: a call has failed and finish() has returned all the same.
C8_Witness ==
    /\ faults > 0
    /\ FinishReturned
    /\ process = None
    /\ \E t \in Tids : threads[t].why = "reduce_raised"

\* C9: one thread, no failure, no shutdown request, k >= 1: when the loop has
\* ended on a run reported not RUNNING after n queries answered RUNNING, the
\* sink holds exactly n \div k batches, with steps 0 .. n \div k - 1, each
\* with one value per active source, folded from the k samples of its cycle.
C9_PublishesPerActiveQueries ==
    \A t \in Tids :
        (/\ threads[t].why = "stopped"
         /\ spawned = 1
         /\ faults = 0
         /\ ~shutdown_event
         /\ samples_before_logging >= 1)
        => /\ Len(sink) = oracle_active \div samples_before_logging
           /\ logging_step = Len(sink)
           /\ \A n \in 1..Len(sink) :
                /\ sink[n].step = n - 1
                /\ DOMAIN sink[n].batch = Active
                /\ \A s \in Active :
                     sink[n].batch[s] = samples_before_logging

\* C9 witness: the run was reported RUNNING MaxSamples times, then ended,
\* and with samples_before_logging = MaxSamples exactly one batch, with step
\* 0, was recorded.
C9_Witness ==
    /\ \E t \in Tids : threads[t].why = "stopped"
    /\ spawned = 1
    /\ faults = 0
    /\ ~shutdown_event
    /\ samples_before_logging = MaxSamples
    /\ oracle_active = MaxSamples
    /\ Len(sink) = 1
    /\ sink[1].step = 0

\* What the claim says an override resolves to.
OverrideWins(e, arg) == IF e.present THEN e.val ELSE arg

\* C10: both settings resolve to the override whenever one is present, for
\* every override value, and to the constructor argument otherwise.
C10_OverrideWins ==
    object = "built" =>
        /\ sampling_interval = OverrideWins(env_interval, arg_interval)
        /\ samples_before_logging = OverrideWins(env_samples, arg_samples)


(* ------------------------------- C11 ---------------------------------- *)

\* The run is reported RUNNING, no call has failed, no shutdown was asked.
Healthy == ~shutdown_event /\ run_status = "RUNNING" /\ faults = 0

Running == \E t \in Tids : Live(t)

\* C11: with samples_before_logging >= 1, under fair scheduling, whenever a
\* monitor thread runs and n batches have been published (logging_step = n),
\* then eventually one more batch is published and logging_step exceeds n,
\* unless the run stops being RUNNING, a call fails or shutdown is asked.
\* Checked for every n below MaxPublish.
C11_PublishingNeverStalls ==
    \A n \in 0..(MaxPublish - 1) :
        /\ (Running /\ samples_before_logging >= 1 /\ Len(sink) = n)
              ~> (Len(sink) > n \/ ~Healthy)
        /\ (Running /\ samples_before_logging >= 1 /\ logging_step = n)
              ~> (logging_step > n \/ ~Healthy)

\* MaxPublish batches were published in a row by a healthy loop.
C11_Witness ==
    /\ Healthy
    /\ Running
    /\ samples_before_logging >= 1
    /\ Len(sink) = MaxPublish
    /\ logging_step = MaxPublish

(* ------------------------------- C12 ---------------------------------- *)

\* The five attributes of the round-tripped Metric are those of the original.
SameAttributes(a, b) ==
    /\ a.key = b.key
    /\ a.value = b.value
    /\ a.timestamp = b.timestamp
    /\ a.step = b.step
    /\ a.tags = b.tags

RoundTripped == entity.stage = "back"

C13_Cadence ==
    [][\A t \in Tids :
         LET a == threads[t]
             b == threads'[t]
         IN  /\ (a.pc = "collect" /\ b.pc # "collect") =>
                   /\ b.pc \in {"wait", "done"}
                   /\ (b.pc = "wait" /\ faults' = faults) =>
                         buffers' = Sampled(Active)
             /\ (a.pc = "wait" /\ b.pc # "wait") => b.pc = "get_run"
             /\ (a.pc = "get_run" /\ b.pc # "get_run") =>
                   b.pc \in {"check", "done"}
             /\ (a.pc = "check" /\ b.pc \notin {"check", "done"}) =>
                   /\ a.run = "RUNNING"
                   /\ b.rounds = a.rounds + 1
                   /\ b.pc \in {"collect", "aggregate"}
             /\ (b.rounds # a.rounds /\ b.pc # "done") =>
                   a.pc \in {"check", "record"}
             /\ (a.pc # "collect" /\ b.pc = "collect") =>
                   a.pc \in {"while", "check"}
             /\ (a.pc # "aggregate" /\ b.pc = "aggregate") =>
                   a.rounds + (IF a.pc = "check" THEN 1 ELSE 0)
                     = samples_before_logging
             /\ (a.pc # "record" /\ b.pc = "record") =>
                   a.pc = "aggregate" /\ a.rounds = samples_before_logging
             /\ (a.pc = "record" /\ b.pc = "incr_load") =>
                   /\ Len(sink') = Len(sink) + 1
                   /\ a.rounds = samples_before_logging
                   /\ b.rounds = 0
             /\ Len(sink') # Len(sink) =>
                   \E u \in Tids : threads[u].pc = "record"
                                     /\ threads'[u].pc = "incr_load"
    ]_vars

\* A thread is about to publish its second batch, samples_before_logging
\* (more than one) rounds after its first.
C13_Witness ==
    \E t \in Tids :
        /\ threads[t].pc = "record"
        /\ Len(sink) >= 1
        /\ samples_before_logging > 1
        /\ threads[t].rounds = samples_before_logging

(* ------------------------------- C14 ---------------------------------- *)

\* C14: a get_run that raises ends the loop with that one query: the thread
\* goes from the query straight out of monitor(), nothing is collected,
\* recorded or cleared and the step is not advanced in that step, and the
\* thread never acts again; when it was the only thread spawned, the sink,
\* the step and the buffers (the samples of the cycle in progress included)
\* stay as they are from then on.
C14_OracleFailStop ==
    [][\A t \in Tids :
         /\ (threads'[t].why = "get_run_failed"
                /\ threads[t].why # "get_run_failed")
            => /\ threads[t].pc = "get_run"
               /\ threads'[t].pc = "done"
               /\ oracle_active' = oracle_active
               /\ sink' = sink
               /\ logging_step' = logging_step
               /\ buffers' = buffers
         /\ threads[t].why = "get_run_failed"
            => /\ threads'[t] = threads[t]
               /\ threads[t].pc = "done"
               /\ spawned = 1 => /\ sink' = sink
                                 /\ logging_step' = logging_step
                                 /\ buffers' = buffers
       ]_vars

\* The status query failed in the second cycle, after a first batch was
\* published: the samples of the second cycle stay in the buffers, and the
\* sink and the step still show one publish.
C14_Witness ==
    /\ \E t \in Tids : threads[t].why = "get_run_failed"
    /\ \A s \in Active : buffers[s] >= 1
    /\ Len(sink) = 1
    /\ logging_step = 1

(* ------------------------------- C15 ---------------------------------- *)

\* C15: when every call a thread makes returns, and without assuming that
\* the sampling interval ever elapses, every thread running while the
\* shutdown event is set eventually leaves monitor(), and a finish() that
\* has set the event and waits in join() eventually returns; this from every
\* position of the loop and for every status of the run.
C15_ShutdownTerminates ==
    /\ \A t \in Tids : (shutdown_event /\ Live(t)) ~> ~Live(t)
    /\ (caller = "joining") ~> (caller = "ready" /\ process = None)

\* finish() returned after joining a thread that the event took out of the
\* middle of a cycle (at the test after the wait) while the run was RUNNING.
C15_Witness ==
    /\ FinishReturned
    /\ process = None
    /\ run_status = "RUNNING"
    /\ faults = 0
    /\ \E t \in Tids : threads[t].pc = "done" /\ threads[t].why = "stopped"

(* ------------------------------- C16 ---------------------------------- *)

\* C16: in every publish step of every thread the order is: reduce every
\* source, record the batch under the current logging_step, add one to
\* logging_step, clear every source; so once a batch has been recorded, the
\* first collect of a cycle finds every buffer empty, and no recorded batch
\* folds more samples of a source than the samples_before_logging rounds of
\* one cycle.
C16_PublishOrder ==
    [][/\ \A t \in Tids :
            LET a == threads[t]
                b == threads'[t]
            IN  /\ (a.pc = "aggregate" /\ b.pc = "record") =>
                      /\ b.metrics = AggregateMetrics
                      /\ UNCHANGED <<sink, logging_step, buffers>>
                /\ (a.pc = "record" /\ b.pc = "incr_load") =>
                      /\ sink' = Append(sink, [step |-> logging_step,
                                                batch |-> a.metrics])
                      /\ UNCHANGED <<logging_step, buffers>>
                /\ (a.pc = "incr_store" /\ b.pc = "clear") =>
                      /\ logging_step' = logging_step + 1
                      /\ UNCHANGED <<sink, buffers>>
                /\ (a.pc = "clear" /\ b.pc = "while") =>
                      /\ \A s \in Active : buffers'[s] = 0
                      /\ UNCHANGED <<sink, logging_step>>
                /\ (a.pc = "collect" /\ b.pc # "collect" /\ a.rounds = 0
                       /\ Len(sink) >= 1) =>
                      \A s \in Sources : buffers[s] = 0
       /\ \A n \in DOMAIN sink' : \A s \in DOMAIN sink'[n].batch :
            sink'[n].batch[s] <= samples_before_logging
      ]_vars

(* ------------------------------- C17 ---------------------------------- *)

\* The Monitor is constructed, its owner is in no call, and it holds no
\* thread handle: never started, spawn failed, or finish() has returned.
NoHandle == Built /\ caller = "ready" /\ process = None

\* C17: whenever the Monitor holds no thread handle, finish() can return at
\* once, and no step that leaves it without a handle (finish() is one) sets
\* the shutdown event, changes logging_step or any other Monitor state that
\* a running thread is not writing, or leaves the owner blocked; and every
\* finish() that returns leaves the Monitor without a handle, so that a
\* second finish() is such a call.
C17_FinishWithoutHandle ==
    [][/\ NoHandle => ENABLED FinishNoProcess
       /\ (NoHandle /\ process' = None) =>
             /\ shutdown_event' = shutdown_event
             /\ caller' = "ready"
             /\ UNCHANGED <<config, spawned>>
             /\ (\A t \in Tids : ~Live(t)) =>
                   UNCHANGED <<logging_step, buffers, sink, threads>>
       /\ (caller = "joining" /\ caller' = "ready") => NoHandle'
      ]_vars

\* finish() has returned after a published batch and every thread has
\* exited: a second finish() finds no handle.
C17_Witness ==
    /\ NoHandle
    /\ FinishReturned
    /\ logging_step >= 1
    /\ \A t \in Tids : ~Live(t)
    /\ ENABLED FinishNoProcess

(* ------------------------------- C18 ---------------------------------- *)

\* C18: once constructed, samples_before_logging is at least 1, and a
\* thread reaches record_metrics only after at least one round (one collect
\* and one status query) since its previous record_metrics call.
C18_AtLeastOneSample ==
    /\ Built => samples_before_logging >= 1
    /\ \A t \in Tids :
         threads[t].pc = "record" => threads[t].rounds >= 1

(* ------------------------------- C19 ---------------------------------- *)

\* C19: counting, for each thread, the collect rounds and the record_metrics
\* calls it begins while the shutdown event is set, the count never exceeds
\* one: at most one collect round or one publish, never both, never two of
\* either, wherever in the cycle the event is set.
C19_OneStepAfterSignal == \A t \in Tids : threads[t].late <= 1

\* The event was set while a thread was between its last round and the
\* publish: the thread published that one batch and then left the loop at
\* the while test.
C19_Witness ==
    \E t \in Tids :
        /\ threads[t].pc = "done"
        /\ threads[t].why = "shutdown"
        /\ threads[t].late = 1
        /\ samples_before_logging >= 1
        /\ Len(sink) >= 1

(* ------------------------------- C20 ---------------------------------- *)

\* C20: no step clears the shutdown event once it is set; a thread spawned
\* while the event is set begins at the while test, and a thread at the
\* while test with the event set leaves monitor() there, without a collect,
\* a status query or a publish; so from the time the event is set and every
\* thread spawned so far has exited, logging_step, the sink and the buffers
\* never change again, whatever start() and finish() calls follow.
C20_NoRestart ==
    [][/\ shutdown_event => shutdown_event'
       /\ \A t \in Tids :
            LET a == threads[t]
                b == threads'[t]
            IN  /\ (shutdown_event /\ a.pc = "unstarted" /\ b # a) =>
                      b = [a EXCEPT !.pc = "while"]
                /\ (shutdown_event /\ a.pc = "while" /\ b # a) =>
                      /\ b = [NotStarted EXCEPT !.pc = "done",
                                                !.why = "shutdown",
                                                !.late = a.late]
                      /\ UNCHANGED <<logging_step, sink, buffers,
                                     oracle_active>>
       /\ (shutdown_event /\ \A t \in Tids :
                                threads[t].pc \in {"unstarted", "while",
                                                   "done"}) =>
             UNCHANGED <<logging_step, sink, buffers, oracle_active>>
      ]_vars

\* start() was called after a finish() that had joined the first thread and
\* returned: the second thread has left the loop at its first while test,
\* and the sink and logging_step still show the first thread's one publish.
C20_Witness ==
    /\ shutdown_event
    /\ caller = "ready"
    /\ process = 2
    /\ threads[1].pc = "done"
    /\ threads[2].pc = "done"
    /\ threads[2].why = "shutdown"
    /\ faults = 0
    /\ samples_before_logging >= 1
    /\ Len(sink) = 1
    /\ logging_step = 1

=========================================================================
